---- MODULE Spec2Model ----
(***************************************************************************)
(* A model of the NYC AirBnB finder (src/app.py, src/db_utils.py): the     *)
(* PostGIS store it reads, the two memoised reference queries, the         *)
(* listing query, and the Streamlit page run with its widgets and its      *)
(* session flag.                                                           *)
(*                                                                         *)
(* Prices are kept in units of 1/PriceScale dollar so that fractional      *)
(* prices, and the truncation int() applies to them, are part of the       *)
(* model.  Positions are metres along a line; a neighbourhood polygon is   *)
(* a region number, and a point is contained in the polygon of its region. *)
(***************************************************************************)
EXTENDS Integers, Sequences, FiniteSets, TLC

VARIABLES
    store,          \* the database: neighbourhood rows, listing rows, stations
    now,            \* wall clock, seconds
    nhCache,        \* st.cache_data entry of load_neighborhoods
    priceCache,     \* st.cache_data entry of get_price_categories
    widgets,        \* widget state of the session: the two selectboxes, the checkbox
    session_state,  \* st.session_state: whether it has the key search_clicked, and its value
    page,           \* what the last page run of the session did
    nhCall,         \* the last call of load_neighborhoods, by any caller
    priceOut,       \* outcome of a direct call of get_price_categories
    fetchPrev,      \* the call of fetch_listings before the last one
    fetchLast       \* the last direct call of fetch_listings

vars == <<store, now, nhCache, priceCache, widgets, session_state, page,
          nhCall, priceOut, fetchPrev, fetchLast>>

----------------------------------------------------------------------------
(* Bounds of the model *)

PriceScale == 2
MaxPriceUnits == 7
MaxLen == 4
MaxFetchListings == 2
MaxTicks == 2

(* Program constants *)

ttl == 3600
Radius == 400

----------------------------------------------------------------------------
(* Sequences *)

Range(s) == { s[i] : i \in 1..Len(s) }

RECURSIVE Insert(_, _)
Insert(x, s) ==
    IF s = <<>> THEN <<x>>
    ELSE IF x <= Head(s) THEN <<x>> \o s
    ELSE <<Head(s)>> \o Insert(x, Tail(s))

RECURSIVE SortAsc(_)
SortAsc(s) ==
    IF s = <<>> THEN <<>> ELSE Insert(Head(s), SortAsc(Tail(s)))

SeqsUpTo(S, n) == UNION { [1..k -> S] : k \in 0..n }

----------------------------------------------------------------------------
(* The price column.  A price is <<>> (SQL NULL) or <<u>>, u units of      *)
(* 1/PriceScale dollar.                                                    *)

NULL == <<>>

\* SELECT price::numeric AS price FROM nyc_listings_bnb WHERE price IS NOT NULL
PriceColumn(listings) ==
    LET nonNull == SelectSeq(listings, LAMBDA l : l.price # NULL)
    IN  [i \in 1..Len(nonNull) |-> nonNull[i].price[1]]

SortedPricesUnsorted(col) == col

\* Series.quantile orders the values before it interpolates
SortedPrices(col) == SortAsc(col)

\* int(prices.quantile(k/4)): linear interpolation at position (n-1)*k/4 of
\* the ordered values, truncated to whole dollars
IntQuantile(col, k) ==
    LET s == SortedPrices(col)
        n == Len(s)
        i == ((n - 1) * k) \div 4
        r == ((n - 1) * k) % 4
        a == s[i + 1]
        b == IF r = 0 THEN a ELSE s[i + 2]
    IN  (4 * a + (b - a) * r) \div (4 * PriceScale)

\* int(prices.max())
IntMax(col) ==
    (CHOOSE m \in Range(col) : \A x \in Range(col) : x <= m) \div PriceScale

Label(kind, a, b) == [kind |-> kind, a |-> a, b |-> b]

CategoriesTopExclusive(q1, q2, q3, max_p) ==
    << [label |-> Label("Below", q1, q1), range |-> <<0, q1>>],
       [label |-> Label("To", q1, q2),    range |-> <<q1, q2>>],
       [label |-> Label("To", q2, q3),    range |-> <<q2, q3>>],
       [label |-> Label("Above", q3, q3), range |-> <<q3, max_p>>] >>

\* the list of (label, (low, high)) pairs
Categories(q1, q2, q3, max_p) ==
    << [label |-> Label("Below", q1, q1), range |-> <<0, q1>>],
       [label |-> Label("To", q1, q2),    range |-> <<q1, q2>>],
       [label |-> Label("To", q2, q3),    range |-> <<q2, q3>>],
       [label |-> Label("Above", q3, q3), range |-> <<q3, max_p + 1>>] >>

\* get_price_categories without its cache: the quantile of an empty column
\* is NaN, and int(NaN) raises ValueError
get_price_categories(listings) ==
    LET col == PriceColumn(listings)
    IN  IF col = <<>>
        THEN [raised |-> "ValueError", categories |-> <<>>]
        ELSE [raised |-> "none",
              categories |-> Categories(IntQuantile(col, 1), IntQuantile(col, 2),
                                        IntQuantile(col, 3), IntMax(col))]

----------------------------------------------------------------------------
(* The store.  nyc_neighborhoods is a set of rows [name, region];          *)
(* nyc_listings_bnb a sequence of rows [price, region, pos], a listing's   *)
(* id being its index; nyc_subway_stations a set of positions.             *)

\* every neighbourhood name of the model, in the order ORDER BY name gives
AllNames == <<"", "Astoria", "SoHo">>

\* SELECT DISTINCT name FROM nyc_neighborhoods ORDER BY name
NeighborhoodNames(st) ==
    SelectSeq(AllNames, LAMBDA n : \E row \in st.neighborhoods : row.name = n)

Abs(x) == IF x < 0 THEN -x ELSE x

\* ST_Transform(geom, 4326): a position in metres becomes one in degrees
\* (here thousandths of a degree, 111320 m to the degree)
ST_Transform4326(pos) == (pos * 1000) \div 111320

\* ST_DWithin on two geometries: the distance is in the units of their
\* reference system, which for 4326 is the degree
ST_DWithin(g1, g2, distance) == Abs(g1 - g2) <= distance * 1000

\* ST_Contains(nh.geom, ST_Transform(bnb.listing_geom, ST_SRID(nh.geom)))
ST_Contains(row, listing) == row.region = listing.region

NameMatchesAny(name, neighborhood) == TRUE

\* nh.name = :neighborhood
NameMatches(name, neighborhood) == name = neighborhood

\* bnb.price::numeric >= :price_min AND bnb.price::numeric < :price_max
\* (a comparison with NULL is not true)
PriceInRange(price, price_range) ==
    /\ price # NULL
    /\ price[1] >= price_range[1] * PriceScale
    /\ price[1] < price_range[2] * PriceScale

SubwayClauseInverted(st, listing, near_subway) ==
    near_subway \/
        \E ss \in st.stations :
            ST_DWithin(ST_Transform4326(listing.pos), ST_Transform4326(ss), Radius)

\* the clause appended to the query when near_subway is set
SubwayClause(st, listing, near_subway) ==
    near_subway =>
        \E ss \in st.stations :
            ST_DWithin(ST_Transform4326(listing.pos), ST_Transform4326(ss), Radius)

\* fetch_listings: the ids of the rows the query returns
fetch_listings(st, neighborhood, price_range, near_subway) ==
    { id \in 1..Len(st.listings) :
        LET bnb == st.listings[id]
        IN  /\ \E nh \in st.neighborhoods :
                  /\ ST_Contains(nh, bnb)
                  /\ NameMatches(nh.name, neighborhood)
            /\ PriceInRange(bnb.price, price_range)
            /\ SubwayClause(st, bnb, near_subway) }

----------------------------------------------------------------------------
(* st.cache_data(ttl=3600): one entry per function (neither takes an       *)
(* argument), kept with the time it was computed.  A call is served from   *)
(* the entry while it is younger than ttl; otherwise the function body     *)
(* runs and its return value replaces the entry.  An exception is not      *)
(* cached.  The library computes under a lock, so a call is one step.      *)

NoEntry == [valid |-> FALSE, value |-> <<>>, created |-> 0]

CacheFreshNever(entry, t) == FALSE

CacheFresh(entry, t) == entry.valid /\ t - entry.created < ttl

\* load_neighborhoods(): the value returned, the entry afterwards, and
\* whether the query ran
load_neighborhoods(entry, st, t) ==
    IF CacheFresh(entry, t)
    THEN [value |-> entry.value, entry |-> entry, queried |-> FALSE]
    ELSE LET names == NeighborhoodNames(st)
         IN  [value |-> names,
              entry |-> [valid |-> TRUE, value |-> names, created |-> t],
              queried |-> TRUE]

\* get_price_categories() behind its cache
cached_price_categories(entry, st, t) ==
    IF CacheFresh(entry, t)
    THEN [raised |-> "none", value |-> entry.value, entry |-> entry,
          queried |-> FALSE]
    ELSE LET got == get_price_categories(st.listings)
         IN  [raised |-> got.raised,
              value |-> got.categories,
              entry |-> IF got.raised = "none"
                        THEN [valid |-> TRUE, value |-> got.categories,
                              created |-> t]
                        ELSE entry,
              queried |-> TRUE]

----------------------------------------------------------------------------
(* The page run: the script from line 84 to line 126, run top to bottom    *)
(* after every interaction.                                                *)

NoLabel == Label("none", 0, 0)
NoQuery == [neighborhood |-> "", price_range |-> <<0, 0>>, near_subway |-> FALSE]

\* list.index: the first position of x
IndexOf(s, x) ==
    CHOOSE i \in 1..Len(s) : s[i] = x /\ \A j \in 1..(i - 1) : s[j] # x

\* st.selectbox: the widget keeps its value from run to run; a selectbox
\* whose options differ from those of the last run is a new widget, at its
\* first option
Selectbox(options, shown, value) ==
    IF options = shown THEN value ELSE options[1]

ShouldFetchAlways(flag) == TRUE

\* if st.session_state.search_clicked:
ShouldFetch(flag) == flag

\* Lines 84-126 with the widget state w and the session state ss the
\* interaction (and its callback) left; warned tells whether do_search
\* gave its warning.
Rerun(w, ss, warned) ==
    LET nh == load_neighborhoods(nhCache, store, now)
        options == <<"">> \o nh.value
        selected_neighborhood == Selectbox(options, page.options, w.neighborhood)
        pc == cached_price_categories(priceCache, store, now)
        fresh == /\ nhCache.valid /\ now - nhCache.created < ttl
                 /\ priceCache.valid /\ now - priceCache.created < ttl
    IN  /\ nhCache' = nh.entry
        /\ priceCache' = pc.entry
        /\ IF pc.raised # "none"
           THEN \* line 87 raises: the run ends there, and the widgets that
                \* were not drawn lose their state
                /\ widgets' = [neighborhood |-> selected_neighborhood,
                               price |-> NoLabel, near |-> FALSE]
                /\ session_state' = ss
                /\ page' = [status |-> "aborted", raised |-> pc.raised,
                            options |-> options, labels |-> <<>>,
                            fetched |-> FALSE, query |-> NoQuery,
                            queries |-> [nh |-> IF nh.queried THEN 1 ELSE 0,
                                         price |-> 1, fetch |-> 0],
                            fresh |-> fresh, flag |-> ss.search_clicked,
                            warned |-> warned]
           ELSE LET price_categories == pc.value
                    price_labels == [i \in 1..Len(price_categories) |->
                                        price_categories[i].label]
                    selected_price_label ==
                        Selectbox(price_labels, page.labels, w.price)
                    price_range ==
                        price_categories[IndexOf(price_labels,
                                                 selected_price_label)].range
                    near_subway == w.near
                    flag == IF ss.has THEN ss.search_clicked ELSE FALSE
                    fetch == ShouldFetch(flag)
                IN  /\ widgets' = [neighborhood |-> selected_neighborhood,
                                   price |-> selected_price_label,
                                   near |-> near_subway]
                    /\ session_state' = [has |-> TRUE, search_clicked |-> flag]
                    /\ page' = [status |-> "ok", raised |-> "none",
                                options |-> options, labels |-> price_labels,
                                fetched |-> fetch,
                                query |-> IF fetch
                                          THEN [neighborhood |-> selected_neighborhood,
                                                price_range |-> price_range,
                                                near_subway |-> near_subway]
                                          ELSE NoQuery,
                                queries |-> [nh |-> IF nh.queried THEN 1 ELSE 0,
                                             price |-> IF pc.queried THEN 1 ELSE 0,
                                             fetch |-> IF fetch THEN 1 ELSE 0],
                                fresh |-> fresh, flag |-> flag,
                                warned |-> warned]

----------------------------------------------------------------------------
(* Initial values shared by the specifications *)

Listing(price, region, pos) == [price |-> price, region |-> region, pos |-> pos]
Row(name, region) == [name |-> name, region |-> region]

NoPage ==
    [status |-> "none", raised |-> "none", options |-> <<>>, labels |-> <<>>,
     fetched |-> FALSE, query |-> NoQuery,
     queries |-> [nh |-> 0, price |-> 0, fetch |-> 0],
     fresh |-> FALSE, flag |-> FALSE, warned |-> FALSE]

NoCall ==
    [seq |-> 0, caller |-> 0, value |-> <<>>, queried |-> FALSE,
     filled |-> FALSE, fillTime |-> 0, fillValue |-> <<>>]

NoPriceOut == [called |-> FALSE, raised |-> "none", categories |-> <<>>]

NoFetch == [called |-> FALSE, query |-> NoQuery, listings |-> {}]

InitRest ==
    /\ now = 0
    /\ nhCache = NoEntry
    /\ priceCache = NoEntry
    /\ widgets = [neighborhood |-> "", price |-> NoLabel, near |-> FALSE]
    /\ session_state = [has |-> FALSE, search_clicked |-> FALSE]
    /\ page = NoPage
    /\ nhCall = NoCall
    /\ priceOut = NoPriceOut
    /\ fetchPrev = NoFetch
    /\ fetchLast = NoFetch

----------------------------------------------------------------------------
(* get_price_categories on every price column of the bounds *)

PriceValues == {NULL} \cup { <<u>> : u \in 0..MaxPriceUnits }

InitPrices ==
    /\ \E col \in SeqsUpTo(PriceValues, MaxLen) :
           store = [neighborhoods |-> {},
                    listings |-> [i \in 1..Len(col) |-> Listing(col[i], 1, 0)],
                    stations |-> {}]
    /\ InitRest

CallGetPriceCategories ==
    /\ ~priceOut.called
    /\ LET got == get_price_categories(store.listings)
       IN  priceOut' = [called |-> TRUE, raised |-> got.raised,
                        categories |-> got.categories]
    /\ UNCHANGED <<store, now, nhCache, priceCache, widgets, session_state,
                   page, nhCall, fetchPrev, fetchLast>>

NextPrices == CallGetPriceCategories

SpecPrices == InitPrices /\ [][NextPrices]_vars

----------------------------------------------------------------------------
(* fetch_listings on every store and every filter of the bounds *)

FetchNames == {"", "Astoria", "SoHo"}
Regions == {1, 2}
FetchPrices == {NULL, <<2 * PriceScale>>}
ListingPositions == {0, 1000}
StationPositions == {200}
FetchRanges == {<<0, 2>>, <<2, 3>>, <<3, 5>>}

\* the names a row with the polygon of region r may bear
RegionNames(r) == IF r = 1 THEN {"", "SoHo"} ELSE {"Astoria", "SoHo"}

\* each region the polygon of at most one neighbourhood row
FetchNeighborhoodTables ==
    { { Row(f[r], r) : r \in { x \in Regions : f[x] # "absent" } } :
        f \in { g \in [Regions -> FetchNames \cup {"absent"}] :
                   \A r \in Regions : g[r] \in RegionNames(r) \cup {"absent"} } }

FetchListingRows ==
    { Listing(p, r, x) : p \in FetchPrices, r \in Regions, x \in ListingPositions }

InitFetch ==
    /\ \E nhs \in FetchNeighborhoodTables,
          ls \in SeqsUpTo(FetchListingRows, MaxFetchListings),
          ss \in SUBSET StationPositions :
           store = [neighborhoods |-> nhs, listings |-> ls, stations |-> ss]
    /\ InitRest

SameFilter(q1, q2) ==
    q1.neighborhood = q2.neighborhood /\ q1.price_range = q2.price_range

\* One call; the call before it is kept when it had the same neighbourhood
\* and price range.
CallFetchListings(neighborhood, price_range, near_subway) ==
    LET q == [neighborhood |-> neighborhood, price_range |-> price_range,
              near_subway |-> near_subway]
    IN  /\ fetchLast' = [called |-> TRUE, query |-> q,
                         listings |-> fetch_listings(store, neighborhood,
                                                     price_range, near_subway)]
        /\ fetchPrev' = IF fetchLast.called /\ SameFilter(fetchLast.query, q)
                           /\ fetchLast.query.near_subway # near_subway
                        THEN fetchLast ELSE NoFetch
        /\ UNCHANGED <<store, now, nhCache, priceCache, widgets, session_state,
                       page, nhCall, priceOut>>

NextFetch ==
    \E n \in FetchNames, r \in FetchRanges, b \in BOOLEAN :
        CallFetchListings(n, r, b)

SpecFetch == InitFetch /\ [][NextFetch]_vars

----------------------------------------------------------------------------
(* load_neighborhoods called by two sessions while the clock advances and  *)
(* the neighbourhood table changes (SpecCache)                             *)

Callers == {1, 2}
SoHoRow == Row("SoHo", 1)
AstoriaRow == Row("Astoria", 2)
SessionNeighborhoodTables == { {}, {SoHoRow}, {SoHoRow, AstoriaRow} }
SessionListingTables ==
    { <<>>,
      <<Listing(<<4 * PriceScale>>, 1, 0)>>,
      <<Listing(<<4 * PriceScale>>, 1, 0), Listing(<<9 * PriceScale>>, 2, 1000)>> }
\* the clock is read every half interval
TickSeconds == ttl \div 2
MaxTime == MaxTicks * TickSeconds

InitSession ==
    /\ \E nhs \in SessionNeighborhoodTables, ls \in SessionListingTables :
           store = [neighborhoods |-> nhs, listings |-> ls,
                    stations |-> StationPositions]
    /\ InitRest

\* the clock advances
Tick(d) ==
    /\ now + d <= MaxTime
    /\ now' = now + d
    /\ UNCHANGED <<store, nhCache, priceCache, widgets, session_state, page,
                   nhCall, priceOut, fetchPrev, fetchLast>>

\* another program rewrites nyc_neighborhoods
UpdateNeighborhoods(nhs) ==
    /\ nhs # store.neighborhoods
    /\ store' = [store EXCEPT !.neighborhoods = nhs]
    /\ UNCHANGED <<now, nhCache, priceCache, widgets, session_state, page,
                   nhCall, priceOut, fetchPrev, fetchLast>>

\* another program rewrites nyc_listings_bnb
UpdateListings(ls) ==
    /\ ls # store.listings
    /\ store' = [store EXCEPT !.listings = ls]
    /\ UNCHANGED <<now, nhCache, priceCache, widgets, session_state, page,
                   nhCall, priceOut, fetchPrev, fetchLast>>

\* One call of load_neighborhoods by a session.  nhCall records the call
\* and, in fill*, the last run of the query up to it.
CallLoadNeighborhoods(caller) ==
    LET nh == load_neighborhoods(nhCache, store, now)
    IN  /\ nhCache' = nh.entry
        /\ nhCall' = [seq |-> 1 - nhCall.seq, caller |-> caller,
                      value |-> nh.value, queried |-> nh.queried,
                      filled |-> nh.queried \/ nhCall.filled,
                      fillTime |-> IF nh.queried THEN now ELSE nhCall.fillTime,
                      fillValue |-> IF nh.queried THEN nh.value
                                    ELSE nhCall.fillValue]
        /\ UNCHANGED <<store, now, priceCache, widgets, session_state, page,
                       priceOut, fetchPrev, fetchLast>>

NextCache ==
    \/ \E c \in Callers : CallLoadNeighborhoods(c)
    \/ Tick(TickSeconds)
    \/ \E nhs \in SessionNeighborhoodTables : UpdateNeighborhoods(nhs)

SpecCache == InitSession /\ [][NextCache]_vars

----------------------------------------------------------------------------
(* The session: every interaction is followed by a page run (Spec)         *)

\* the browser opens the page: the first run of the script
Open ==
    /\ page.status = "none"
    /\ Rerun(widgets, session_state, FALSE)
    /\ UNCHANGED <<store, now, nhCall, priceOut, fetchPrev, fetchLast>>

\* the user picks another option of "Select Neighborhood"
SelectNeighborhood(n) ==
    /\ page.status # "none"
    /\ n \in Range(page.options)
    /\ n # widgets.neighborhood
    /\ Rerun([widgets EXCEPT !.neighborhood = n], session_state, FALSE)
    /\ UNCHANGED <<store, now, nhCall, priceOut, fetchPrev, fetchLast>>

\* the user picks another option of "Select Price Range"
SelectPrice(l) ==
    /\ page.status = "ok"
    /\ l \in Range(page.labels)
    /\ l # widgets.price
    /\ Rerun([widgets EXCEPT !.price = l], session_state, FALSE)
    /\ UNCHANGED <<store, now, nhCall, priceOut, fetchPrev, fetchLast>>

\* the user ticks or unticks the subway checkbox
ToggleSubway ==
    /\ page.status = "ok"
    /\ Rerun([widgets EXCEPT !.near = ~widgets.near], session_state, FALSE)
    /\ UNCHANGED <<store, now, nhCall, priceOut, fetchPrev, fetchLast>>

\* do_search, the button's callback: it runs before the page run, with the
\* selected_neighborhood of the run that drew the button
do_search(ss) ==
    IF widgets.neighborhood # ""
    THEN [ss |-> [has |-> TRUE, search_clicked |-> TRUE], warned |-> FALSE]
    ELSE [ss |-> ss, warned |-> TRUE]

\* the user presses "Search Listings"
ClickSearch ==
    /\ page.status = "ok"
    /\ LET cb == do_search(session_state)
       IN  Rerun(widgets, cb.ss, cb.warned)
    /\ UNCHANGED <<store, now, nhCall, priceOut, fetchPrev, fetchLast>>

Init == InitSession

Next ==
    \/ Open
    \/ \E n \in Range(AllNames) : SelectNeighborhood(n)
    \/ \E l \in Range(page.labels) : SelectPrice(l)
    \/ ToggleSubway
    \/ ClickSearch
    \/ Tick(TickSeconds)
    \/ \E nhs \in SessionNeighborhoodTables : UpdateNeighborhoods(nhs)
    \/ \E ls \in SessionListingTables : UpdateListings(ls)

Spec == Init /\ [][Next]_vars

----------------------------------------------------------------------------
(* Properties of get_price_categories (SpecPrices) *)

Column == PriceColumn(store.listings)
MaxUnits == CHOOSE m \in Range(Column) : \A x \in Range(Column) : x <= m
Computed == priceOut.called /\ priceOut.raised = "none"
Low(i) == priceOut.categories[i].range[1]
High(i) == priceOut.categories[i].range[2]

\* a price of u units lies in the half-open interval [low, high) of dollars
InInterval(u, low, high) == low * PriceScale <= u /\ u < high * PriceScale

\* C2 as stated: for every non-empty column of non-null prices the
\* boundaries are strictly increasing, 0 = low1 < high1 = low2 < high2 =
\* low3 < high3 = low4 < high4 = max + 1, so no bucket is empty.
C2_StrictBoundaries ==
    Computed =>
        /\ Low(1) = 0
        /\ \A i \in 1..4 : Low(i) < High(i)
        /\ \A i \in 1..3 : High(i) = Low(i + 1)
        /\ High(4) * PriceScale = MaxUnits + PriceScale

\* C2 amended: for every non-empty column of non-null, non-negative prices
\* the boundaries are non-decreasing and adjacent, 0 = low1 <= high1 = low2
\* <= high2 = low3 <= high3 = low4 < high4 = int(max) + 1; a bucket between
\* equal quartiles is empty.
C2_Boundaries ==
    Computed =>
        /\ Len(priceOut.categories) = 4
        /\ Low(1) = 0
        /\ \A i \in 1..3 : Low(i) <= High(i) /\ High(i) = Low(i + 1)
        /\ Low(4) < High(4)
        /\ High(4) = (MaxUnits \div PriceScale) + 1

\* a column of MaxLen prices whose three quartiles differ
C2_Witness ==
    /\ Computed
    /\ Len(Column) = MaxLen
    /\ 0 < High(1) /\ High(1) < High(2) /\ High(2) < High(3)

\* a column whose quartiles coincide: an empty bucket
C2_WitnessTie ==
    /\ Computed
    /\ Len(Column) >= 2
    /\ High(1) = High(2) /\ High(2) = High(3)

\* C3: for every non-empty column of non-null, non-negative prices, every
\* price from 0 to the maximum, and so every price of the column, lies in
\* exactly one of the four intervals [low, high), which are listed in
\* ascending order.
C3_Partition ==
    Computed =>
        /\ Len(priceOut.categories) = 4
        /\ \A u \in 0..MaxUnits :
               Cardinality({ i \in 1..4 : InInterval(u, Low(i), High(i)) }) = 1
        /\ \A i \in 1..3 : Low(i) <= Low(i + 1) /\ High(i) <= High(i + 1)

\* a column whose maximum is a whole number of dollars and whose prices
\* fall in more than one bucket
C3_Witness ==
    /\ Computed
    /\ MaxUnits % PriceScale = 0
    /\ InInterval(MaxUnits, Low(4), High(4))
    /\ \E u \in Range(Column) : InInterval(u, Low(1), High(1))
    /\ \E u \in Range(Column) : InInterval(u, Low(3), High(3))

----------------------------------------------------------------------------
(* Properties of fetch_listings (SpecFetch) *)

\* the listing's point is in the polygon of a neighbourhood row of that name
InNeighborhood(id, name) ==
    \E nh \in store.neighborhoods :
        nh.region = store.listings[id].region /\ nh.name = name

\* the listing's price is not NULL and low <= price < high
PricedWithin(id, range) ==
    /\ store.listings[id].price # NULL
    /\ InInterval(store.listings[id].price[1], range[1], range[2])

\* a station lies within 400 metres of the listing
StationWithin400m(id) ==
    \E ss \in store.stations : Abs(store.listings[id].pos - ss) <= 400

\* C4 as stated: every listing returned is in the polygon of the
\* neighbourhood of that name, has a non-null price in [low, high) and,
\* when near_subway is set, has a station within 400 metres.
C4_ReturnedSatisfyAll ==
    fetchLast.called =>
        \A id \in fetchLast.listings :
            /\ InNeighborhood(id, fetchLast.query.neighborhood)
            /\ PricedWithin(id, fetchLast.query.price_range)
            /\ fetchLast.query.near_subway => StationWithin400m(id)

\* C5: with the same neighbourhood and price range against the same store,
\* what near_subway = TRUE returns is part of what near_subway = FALSE
\* returns, and near_subway = FALSE returns every listing of the
\* neighbourhood priced in the range, whatever its distance to a station.
C5_Superset ==
    /\ (fetchLast.called /\ fetchPrev.called) =>
           IF fetchLast.query.near_subway
           THEN fetchLast.listings \subseteq fetchPrev.listings
           ELSE fetchPrev.listings \subseteq fetchLast.listings
    /\ (fetchLast.called /\ ~fetchLast.query.near_subway) =>
           fetchLast.listings =
               { id \in 1..Len(store.listings) :
                   /\ InNeighborhood(id, fetchLast.query.neighborhood)
                   /\ PricedWithin(id, fetchLast.query.price_range) }

\* the two calls were made and the flag made a difference
C5_Witness ==
    /\ fetchLast.called /\ fetchPrev.called
    /\ fetchLast.listings # fetchPrev.listings

\* C9 as stated: with an empty neighbourhood name the result is empty, for
\* every store.
C9_EmptyNameEmptyResult ==
    (fetchLast.called /\ fetchLast.query.neighborhood = "") =>
        fetchLast.listings = {}

\* C9 amended: with an empty neighbourhood name the result is empty, for
\* every store none of whose neighbourhood rows has the empty name.
C9_EmptyNameNoSuchRow ==
    (/\ fetchLast.called
     /\ fetchLast.query.neighborhood = ""
     /\ \A nh \in store.neighborhoods : nh.name # "") =>
        fetchLast.listings = {}

\* the empty name was asked of a store that has, under another name, a
\* listing in the price range
C9_Witness ==
    /\ fetchLast.called
    /\ fetchLast.query.neighborhood = ""
    /\ \A nh \in store.neighborhoods : nh.name # ""
    /\ \E id \in 1..Len(store.listings) :
           /\ InNeighborhood(id, "SoHo")
           /\ PricedWithin(id, fetchLast.query.price_range)
    /\ fetchLast.listings = {}

----------------------------------------------------------------------------
(* Properties of the cache of load_neighborhoods (SpecCache) *)

\* C6: a call of load_neighborhoods made less than ttl seconds after the
\* query last ran returns the sequence that run returned and does not run
\* the query again, whichever session calls and whatever the table holds
\* by then.
C6_CachedWithinInterval ==
    [][ (nhCall'.seq # nhCall.seq /\ nhCall.filled
            /\ now - nhCall.fillTime < ttl) =>
           (nhCall'.value = nhCall.fillValue /\ ~nhCall'.queried) ]_vars

\* the second session was served, later in the interval, a sequence the
\* table no longer holds
C6_Witness ==
    /\ nhCall.filled /\ ~nhCall.queried
    /\ nhCall.caller = 2
    /\ now > nhCall.fillTime /\ now - nhCall.fillTime < ttl
    /\ nhCall.value = nhCall.fillValue
    /\ nhCall.value # NeighborhoodNames(store)

----------------------------------------------------------------------------
(* Properties of the session (Spec) *)

Ran == page.status # "none"
TotalQueries == page.queries.nh + page.queries.price + page.queries.fetch

\* C1 as stated: no page run calls fetch_listings while the selected
\* neighbourhood is the empty option, and a run that warned about the
\* missing neighbourhood made no listing query.
C1_NoFetchWithoutNeighborhood ==
    /\ page.fetched => page.query.neighborhood # ""
    /\ page.warned => ~page.fetched

\* C7 as stated: a page run executes at most one query, the reference
\* queries counted.
C7_AtMostOneQuery == Ran => TotalQueries <= 1

\* C7 amended: a page run executes at most one query of each of
\* load_neighborhoods, get_price_categories and fetch_listings, three at
\* most; a run that starts with both cache entries fresh executes no
\* reference query, so at most one query, the listing query, and that one
\* exactly when the search flag is set.
C7_QueriesPerRun ==
    Ran =>
        /\ TotalQueries <= 3
        /\ page.queries.fetch <= 1
        /\ page.fresh =>
               /\ page.queries.nh = 0 /\ page.queries.price = 0
               /\ TotalQueries = IF page.flag THEN 1 ELSE 0

\* a run that started with both entries fresh and made the listing query
C7_Witness == Ran /\ page.fresh /\ page.fetched /\ TotalQueries = 1

\* a run that made all three queries
C7_WitnessThree == Ran /\ TotalQueries = 3

\* C8 as stated: a page run that computes the categories from a price
\* column without a non-null row gets the DataUnavailable error and ends in
\* an error state, not aborted; a run that gets categories gets four.
C8_DataUnavailableSurfaced ==
    [][ page' # page =>
           /\ (PriceColumn(store.listings) = <<>>
                 /\ ~(priceCache.valid /\ now - priceCache.created < ttl)) =>
                  (page'.raised = "DataUnavailable" /\ page'.status = "error")
           /\ page'.raised = "none" => Len(page'.labels) = 4 ]_vars

\* C10 as stated: search_clicked starts false, becomes true only on a
\* press of the button with a neighbourhood selected, never becomes false
\* again, and every page run made while it is true calls fetch_listings
\* with the filters selected in that run.
C10_StickyFlag ==
    /\ ~session_state.search_clicked
    /\ [][ /\ (session_state'.search_clicked /\ ~session_state.search_clicked)
                => (page.status = "ok" /\ widgets.neighborhood # "")
           /\ session_state.search_clicked => session_state'.search_clicked
           /\ (session_state'.search_clicked /\ <<page, widgets>>' # <<page, widgets>>)
                => /\ page'.fetched
                   /\ page'.query.neighborhood = widgets'.neighborhood
                   /\ page'.query.near_subway = widgets'.near ]_vars

====
